---- MODULE Spec2Model ----
(***************************************************************************)
(* Model of pages/7_Bulk_Upload_CSV.py: the column normalizer, the schema  *)
(* aligners, the upload/combine page flow and the base-file appender.      *)
(* Strings (column names, cells, file contents) are sequences of one-      *)
(* character strings, so that cleaning, suffixing, CSV writing and CSV     *)
(* reading are computed character by character.                            *)
(***************************************************************************)
EXTENDS Integers, Sequences, FiniteSets, TLC

\* ------------------------------------------------------------------ bounds
\* Largest number of raw column names handed to standardize_columns.
MaxCols == 3
\* Largest total number of characters over the raw names of one list.
MaxChars == 5

\* ------------------------------------------------------------- characters
LowerChars == {"a", "b", "c", "d", "e", "l", "o", "s", "t", "v", "w", "x", "y"}
UpperChars == {"A", "B"}
DigitChars == {"0", "1", "2", "3", "4", "5", "6", "7", "8", "9"}
SpaceChars == {" "}
PunctChars == {"-"}
\* The class [0-9a-zA-Z_] of the regular expression on line 20.
WordChars == LowerChars \cup UpperChars \cup DigitChars \cup {"_"}

\* The characters raw names are drawn from: an upper-case letter (which
\* lower() folds), a digit, the underscore and a whitespace character.
RawAlphabet == {"A", "1", "_", " "}

\* str.lower() on one character.
LowerOf(ch) ==
  CASE ch = "A" -> "a"
    [] ch = "B" -> "b"
    [] OTHER -> ch

\* str.lower()
Lower(s) == [i \in 1..Len(s) |-> LowerOf(s[i])]

RECURSIVE DropWhile(_, _)
\* The suffix of s after its leading run of characters of class C.
DropWhile(s, C) ==
  IF s # <<>> /\ Head(s) \in C THEN DropWhile(Tail(s), C) ELSE s

\* The sequence s reversed.
Reverse(s) == [i \in 1..Len(s) |-> s[Len(s) + 1 - i]]

\* str.strip(chars): drops the leading and the trailing run of class C.
Strip(s, C) == Reverse(DropWhile(Reverse(DropWhile(s, C)), C))

RECURSIVE SubRuns(_, _, _)
\* re.sub(r"[C]+", r, s): every maximal run of characters of class C is
\* replaced by the single character r.
SubRuns(s, C, r) ==
  IF s = <<>> THEN <<>>
  ELSE IF Head(s) \in C
       THEN <<r>> \o SubRuns(DropWhile(Tail(s), C), C, r)
       ELSE <<Head(s)>> \o SubRuns(Tail(s), C, r)

\* The characters of the model that are not word characters.
NonWordChars == (RawAlphabet \cup SpaceChars \cup PunctChars) \ WordChars

\* c or "col"
OrCol(c) == IF c = <<>> THEN <<"c", "o", "l">> ELSE c

\* The inner helper _clean of standardize_columns.
Clean(c) ==
  LET c1 == Lower(Strip(c, SpaceChars))
      c2 == SubRuns(c1, SpaceChars, "_")
      c3 == SubRuns(c2, NonWordChars, "_")
      c4 == Strip(SubRuns(c3, {"_"}, "_"), {"_"})
  IN  OrCol(c4)

\* One decimal digit as a character.
DigitOf(d) ==
  CASE d = 0 -> "0" [] d = 1 -> "1" [] d = 2 -> "2" [] d = 3 -> "3"
    [] d = 4 -> "4" [] d = 5 -> "5" [] d = 6 -> "6" [] d = 7 -> "7"
    [] d = 8 -> "8" [] d = 9 -> "9"

RECURSIVE Decimal(_)
\* The decimal rendering of a natural number, as an f-string renders it.
Decimal(n) ==
  IF n < 10 THEN <<DigitOf(n)>> ELSE Decimal(n \div 10) \o <<DigitOf(n % 10)>>

\* f"{c}_{n}"
Suffixed(c, n) == c \o <<"_">> \o Decimal(n)

RECURSIVE MakeUnique(_, _, _)
\* The "make unique" loop of standardize_columns: seen maps every cleaned
\* name met so far to the number of times it was met again; out is the
\* list built so far.
MakeUnique(cleaned, seen, out) ==
  IF cleaned = <<>> THEN out
  ELSE IF Head(cleaned) \notin DOMAIN seen
       THEN MakeUnique(Tail(cleaned), seen @@ (Head(cleaned) :> 0),
                       Append(out, Head(cleaned)))
       ELSE MakeUnique(Tail(cleaned),
                       [seen EXCEPT ![Head(cleaned)] = @ + 1],
                       Append(out, Suffixed(Head(cleaned), seen[Head(cleaned)] + 1)))

\* standardize_columns(cols)
standardize_columns(cols) ==
  MakeUnique([i \in 1..Len(cols) |-> Clean(cols[i])], <<>>, <<>>)

\* ------------------------------------------------- normalizer: the inputs
RECURSIVE StringsOfLen(_, _)
\* All strings of exactly n characters over alphabet A.
StringsOfLen(A, n) ==
  IF n = 0 THEN {<<>>}
  ELSE {<<ch>> \o s : ch \in A, s \in StringsOfLen(A, n - 1)}

\* All strings of at most n characters over alphabet A.
StringsUpTo(A, n) == UNION {StringsOfLen(A, k) : k \in 0..n}

RECURSIVE NameLists(_, _)
\* All lists of exactly k raw names with at most n characters in total.
NameLists(k, n) ==
  IF k = 0 THEN {<<>>}
  ELSE UNION {{<<s>> \o l : l \in NameLists(k - 1, n - Len(s))} :
              s \in StringsUpTo(RawAlphabet, n)}

\* Whether the entries of a list are pairwise distinct.
Distinct(l) == \A i, j \in 1..Len(l) : i # j => l[i] # l[j]

\* ------------------------------------------------------------ ordering
\* The code point of a character, for Python's ordering of strings.
Code(ch) ==
  CASE ch = "\n" -> 10 [] ch = "\r" -> 13 [] ch = " " -> 32 [] ch = "\"" -> 34
    [] ch = "," -> 44 [] ch = "-" -> 45
    [] ch = "0" -> 48 [] ch = "1" -> 49 [] ch = "2" -> 50 [] ch = "3" -> 51
    [] ch = "4" -> 52 [] ch = "5" -> 53 [] ch = "6" -> 54 [] ch = "7" -> 55
    [] ch = "8" -> 56 [] ch = "9" -> 57
    [] ch = "A" -> 65 [] ch = "B" -> 66 [] ch = "_" -> 95
    [] ch = "a" -> 97 [] ch = "b" -> 98 [] ch = "c" -> 99
    [] ch = "d" -> 100 [] ch = "e" -> 101
    [] ch = "l" -> 108 [] ch = "o" -> 111 [] ch = "s" -> 115
    [] ch = "t" -> 116 [] ch = "v" -> 118 [] ch = "w" -> 119 [] ch = "x" -> 120 [] ch = "y" -> 121

RECURSIVE StrLess(_, _)
\* s < t for Python strings: lexicographic by code point.
StrLess(s, t) ==
  IF t = <<>> THEN FALSE
  ELSE IF s = <<>> THEN TRUE
  ELSE IF Head(s) = Head(t) THEN StrLess(Tail(s), Tail(t))
  ELSE Code(Head(s)) < Code(Head(t))

\* The least string of a non-empty set of strings.
Least(S) == CHOOSE x \in S : \A y \in S \ {x} : StrLess(x, y)

RECURSIVE Sorted(_)
\* sorted(S) for a set S of strings.
Sorted(S) ==
  IF S = {} THEN <<>> ELSE <<Least(S)>> \o Sorted(S \ {Least(S)})

\* The set of the entries of a sequence.
Range(s) == {s[i] : i \in 1..Len(s)}

\* ---------------------------------------------------------------- tables
\* A DataFrame is [cols |-> list of column names, rows |-> list of rows],
\* a row being the list of its cells in column order. A cell is its text;
\* the missing cell (NaN) is the empty text.
NA == <<>>

\* pd.DataFrame(): no columns and no rows.
EmptyFrame == [cols |-> <<>>, rows |-> <<>>]

\* DataFrame.empty: some axis has length 0.
IsEmpty(t) == Len(t.cols) = 0 \/ Len(t.rows) = 0

\* The position of column c in the column list cols (c is in cols).
ColIndex(cols, c) == CHOOSE k \in 1..Len(cols) : cols[k] = c

\* One row of t reshaped to the columns cols: the cell of a column t has,
\* the missing cell for a column t lacks.
ReindexRow(t, row, cols) ==
  [j \in 1..Len(cols) |->
     IF cols[j] \in Range(t.cols) THEN row[ColIndex(t.cols, cols[j])] ELSE NA]

\* DataFrame.reindex(columns=cols); also d[cols] when t has every column.
reindex(t, cols) ==
  [cols |-> cols,
   rows |-> [i \in 1..Len(t.rows) |-> ReindexRow(t, t.rows[i], cols)]]

RECURSIVE ConcatRows(_)
\* The rows of a list of frames, one frame after the other.
ConcatRows(dfs) ==
  IF dfs = <<>> THEN <<>> ELSE Head(dfs).rows \o ConcatRows(Tail(dfs))

\* pd.concat(dfs, ignore_index=True) for frames that share their columns.
concat(dfs, cols) == [cols |-> cols, rows |-> ConcatRows(dfs)]

RECURSIVE KeptFrom(_, _, _)
\* drop_duplicates(keep="first") over the rows keys: the positions from i on
\* that stay, a row staying unless it equals a row already seen.
KeptFrom(keys, i, seenKeys) ==
  IF i > Len(keys) THEN <<>>
  ELSE IF keys[i] \in seenKeys
       THEN KeptFrom(keys, i + 1, seenKeys)
       ELSE <<i>> \o KeptFrom(keys, i + 1, seenKeys \cup {keys[i]})

\* The positions drop_duplicates(keep="last") leaves: a row stays unless a
\* later row equals it.
KeptLast(keys, i, seenKeys) ==
  SelectSeq([k \in 1..Len(keys) |-> k],
            LAMBDA k : \A m \in (k + 1)..Len(keys) : keys[m] # keys[k])

\* The positions of the rows drop_duplicates(keep="first") leaves.
KeptFirst(keys, i, seenKeys) == KeptFrom(keys, i, seenKeys)

\* pd.concat([d.reindex(columns=cols) for d in dfs], ignore_index=True)
ConcatAligned(dfs, cols) ==
  concat([i \in 1..Len(dfs) |-> reindex(dfs[i], cols)], cols)

\* align_union with the columns of the first frame taken for all columns.
align_union_first_cols(dfs) == ConcatAligned(dfs, Sorted(Range(dfs[1].cols)))

\* align_union(dfs)
align_union(dfs) ==
  ConcatAligned(dfs, Sorted(UNION {Range(dfs[i].cols) : i \in 1..Len(dfs)}))

RECURSIVE CommonCols(_, _)
\* The loop "for d in dfs[1:]: common &= set(d.columns)".
CommonCols(common, rest) ==
  IF rest = <<>> THEN common
  ELSE CommonCols(common \cap Range(Head(rest).cols), Tail(rest))

\* The entries of rows at the positions kept, in that order.
RowsAt(rows, kept) == [k \in 1..Len(kept) |-> rows[kept[k]]]

\* The rows of a frame without the repeats of an earlier row.
WithoutRepeats(df) == [df EXCEPT !.rows = RowsAt(df.rows, KeptFrom(df.rows, 1, {}))]

\* The last two lines of align_intersection, for the sorted common columns.
ConcatCommon(dfs, common) ==
  IF common = <<>> THEN EmptyFrame ELSE ConcatAligned(dfs, common)

\* align_intersection followed by a drop of repeated rows.
align_intersection_dedup(dfs) ==
  WithoutRepeats(ConcatCommon(dfs, Sorted(CommonCols(Range(dfs[1].cols), Tail(dfs)))))

\* align_intersection(dfs), for a non-empty list dfs.
align_intersection(dfs) ==
  ConcatCommon(dfs, Sorted(CommonCols(Range(dfs[1].cols), Tail(dfs))))

\* ------------------------------------------------------------ CSV text
NL == "\n"
CR == "\r"
Comma == ","
Quote == "\""

RECURSIVE Join(_)
\* The fields of one record separated by commas.
Join(fields) ==
  IF fields = <<>> THEN <<>>
  ELSE IF Len(fields) = 1 THEN fields[1]
  ELSE fields[1] \o <<Comma>> \o Join(Tail(fields))

\* One record as csv.writer writes it, line terminator included: a record
\* of one empty field is written as a pair of quotes, so that it is not a
\* blank line.
CsvLine(fields) ==
  (IF fields = <<NA>> THEN <<Quote, Quote>> ELSE Join(fields)) \o <<NL>>

RECURSIVE CsvLines(_)
\* The records of a list of rows, one line each.
CsvLines(rows) ==
  IF rows = <<>> THEN <<>> ELSE CsvLine(Head(rows)) \o CsvLines(Tail(rows))

\* DataFrame.to_csv(index=False, header=header): the text written.
to_csv(t, header) ==
  (IF header THEN CsvLine(t.cols) ELSE <<>>) \o CsvLines(t.rows)

RECURSIVE SplitOn(_, _, _)
\* text split at every character of class C; cur is the piece being read.
\* The piece after the last separator is kept only when it is not empty.
SplitOn(text, C, cur) ==
  IF text = <<>> THEN (IF cur = <<>> THEN <<>> ELSE <<cur>>)
  ELSE IF Head(text) \in C
       THEN <<cur>> \o SplitOn(Tail(text), C, <<>>)
       ELSE SplitOn(Tail(text), C, Append(cur, Head(text)))

\* Fields as read: a field that is a pair of quotes is the empty field.
Unquoted(raw) ==
  [i \in 1..Len(raw) |-> IF raw[i] = <<Quote, Quote>> THEN NA ELSE raw[i]]

\* The fields of one line: the line split at its commas.
ParseLine(line) ==
  IF line = <<>> THEN <<>>
  ELSE Unquoted(SplitOn(line \o <<Comma>>, {Comma}, <<>>))

NonBlank(line) == line # <<>>

\* The fields of every line of a list of lines.
ParseLines(lines) == [i \in 1..Len(lines) |-> ParseLine(lines[i])]

\* The records of a CSV text: its lines (ended by \n or \r), blank lines
\* skipped, each split into fields.
Records(text) == ParseLines(SelectSeq(SplitOn(text, {NL, CR}, <<>>), NonBlank))

\* A row of n fields: padded with missing cells when shorter.
PadRow(row, n) == [j \in 1..n |-> IF j <= Len(row) THEN row[j] ELSE NA]

\* What read_csv raises leaves no frame.
ReadRaises == [ok |-> FALSE, cols |-> <<>>, rows |-> <<>>]

\* The frame of a header head and data records data, the first extra fields
\* of every record being the implicit index.
FrameOfData(head, data, extra) ==
  IF \E i \in 1..Len(data) : Len(data[i]) > Len(head) + extra
  THEN ReadRaises
  ELSE [ok |-> TRUE,
        cols |-> head,
        rows |-> [i \in 1..Len(data) |->
                    SubSeq(PadRow(data[i], Len(head) + extra),
                           extra + 1, Len(head) + extra)]]

\* The number of fields the first data record has beyond the header.
ExtraFields(head, data) ==
  IF data # <<>> /\ Len(data[1]) > Len(head) THEN Len(data[1]) - Len(head) ELSE 0

\* The frame of a header and data records.
FrameOf(head, data) == FrameOfData(head, data, ExtraFields(head, data))

\* The frame of the records of a text.
FrameOfRecords(recs, hasHeader) ==
  IF recs = <<>> THEN ReadRaises
  ELSE IF hasHeader THEN FrameOf(recs[1], Tail(recs))
  ELSE FrameOf([j \in 1..Len(recs[1]) |-> Decimal(j - 1)], recs)

\* pd.read_csv(text, engine="python", header=0 or None). ok is FALSE when it
\* raises: no record at all (EmptyDataError) or a record with more fields
\* than expected (ParserError). With a header, the fields the first data
\* record has beyond the header are an implicit index, dropped from every
\* row; without one the columns are numbered 0, 1, ...
read_csv(text, hasHeader) == FrameOfRecords(Records(text), hasHeader)

\* ------------------------------------------------------------ base file
\* A file is [exists |-> BOOLEAN, bytes |-> its content].
AbsentFile == [exists |-> FALSE, bytes |-> <<>>]

\* os.path.exists(path) and os.path.getsize(path) > 0
PresentNonEmpty(f) == f.exists /\ f.bytes # <<>>

\* safe_ensure_trailing_newline with its test of the last byte inverted.
ensure_trailing_newline_inverted(f) ==
  IF ~f.exists \/ f.bytes = <<>> THEN f
  ELSE IF f.bytes[Len(f.bytes)] \in {NL, CR}
       THEN [f EXCEPT !.bytes = f.bytes \o <<NL>>]
       ELSE f

\* safe_ensure_trailing_newline(path)
safe_ensure_trailing_newline(f) ==
  IF ~f.exists \/ f.bytes = <<>> THEN f
  ELSE IF f.bytes[Len(f.bytes)] \notin {NL, CR}
       THEN [f EXCEPT !.bytes = f.bytes \o <<NL>>]
       ELSE f

\* The rows of incoming that drop_duplicates(subset=cols, keep="first")
\* leaves of the concatenation of the base rows (marked __is_base=True) and
\* the incoming rows (marked False), the marker column dropped again.
DedupAgainstBase(baseRows, newRows) ==
  RowsAt(baseRows \o newRows,
         SelectSeq(KeptFirst(baseRows \o newRows, 1, {}),
                   LAMBDA k : k > Len(baseRows)))

\* The creation of the file with header=False.
CreateBase_no_header(df_to_append) ==
  [exists |-> TRUE, bytes |-> to_csv(df_to_append, FALSE)]

\* df_to_append.to_csv(base_path, index=False): a new file, header first.
CreateBase(df_to_append) ==
  [exists |-> TRUE, bytes |-> to_csv(df_to_append, TRUE)]

\* What one call leaves behind: the file, whether the call raised, the pair
\* it returned and the rows it wrote after the existing content.
Outcome(f, raised, before, appended, written) ==
  [file |-> f, raised |-> raised, rows_before |-> before,
   rows_appended |-> appended, written |-> written]

\* Lines 129-135 for the file f and the rows that survived: the newline
\* fix-up, the append without header, the pair returned. fixed is the file
\* after the fix-up. failAt names the source line of the write that fails
\* with an I/O error (0: none does); a failing write leaves the file as it
\* was.
AppendRows(f, fixed, new_aligned, rows_before, failAt) ==
  IF failAt = 100 /\ fixed # f THEN Outcome(f, TRUE, 0, 0, <<>>)
  ELSE IF failAt = 133 THEN Outcome(fixed, TRUE, 0, 0, <<>>)
  ELSE Outcome([fixed EXCEPT !.bytes = fixed.bytes \o to_csv(new_aligned, FALSE)],
               FALSE, rows_before, Len(new_aligned.rows), new_aligned.rows)

\* Lines 119-127 for the base and the incoming table over the columns cols.
AlignAndDedup(base, aligned, dedup) ==
  IF dedup
  THEN [aligned EXCEPT !.rows = DedupAgainstBase(base.rows, aligned.rows)]
  ELSE aligned

\* Lines 115-135 for the base as read, its columns standardized to bcols.
AppendToRead(f, read, bcols, cols, df_to_append, dedup, failAt) ==
  IF ~read.ok \/ ~Distinct(bcols) THEN Outcome(f, TRUE, 0, 0, <<>>)
  ELSE AppendRows(f, safe_ensure_trailing_newline(f),
                  AlignAndDedup(reindex([cols |-> bcols, rows |-> read.rows], cols),
                                reindex(df_to_append, cols), dedup),
                  Len(read.rows), failAt)

\* The same, from the read on: cols is sorted(set(base.columns) |
\* set(df_to_append.columns)).
AppendToBase(f, read, bcols, df_to_append, dedup, failAt) ==
  AppendToRead(f, read, bcols,
               Sorted(Range(bcols) \cup Range(df_to_append.cols)),
               df_to_append, dedup, failAt)

\* append_to_base_csv(base_path, df_to_append, dedup_against_base=dedup) on
\* the file f.
append_to_base_csv(f, df_to_append, dedup, failAt) ==
  IF PresentNonEmpty(f)
  THEN AppendToBase(f, read_csv(f.bytes, TRUE),
                    standardize_columns(read_csv(f.bytes, TRUE).cols),
                    df_to_append, dedup, failAt)
  ELSE IF failAt = 138
       THEN Outcome(f, TRUE, 0, 0, <<>>)
       ELSE Outcome(CreateBase(df_to_append),
                    FALSE, 0, Len(df_to_append.rows), df_to_append.rows)

\* Lines 249-254 of do_append for the base as read: the base rewritten with
\* its standardized header over all_cols, then the call of
\* append_to_base_csv with the combined table aligned to all_cols.
RewriteAndAppend(f, read, bcols, all_cols, combined, dedup, failAt) ==
  IF ~read.ok \/ ~Distinct(bcols) \/ failAt = 253
  THEN Outcome(f, TRUE, 0, 0, <<>>)
  ELSE append_to_base_csv(
         [exists |-> TRUE,
          bytes |-> to_csv(reindex([cols |-> bcols, rows |-> read.rows], all_cols), TRUE)],
         reindex(combined, all_cols), dedup, failAt)

\* Lines 246-254 of do_append, from the read on.
AppendOnPage(f, read, bcols, combined, dedup, failAt) ==
  RewriteAndAppend(f, read, bcols,
                   Sorted(Range(bcols) \cup Range(combined.cols)),
                   combined, dedup, failAt)

\* The body of "if do_append:" on the file f with the combined table.
do_append(f, combined, dedup, failAt) ==
  IF PresentNonEmpty(f)
  THEN AppendOnPage(f, read_csv(f.bytes, TRUE),
                    standardize_columns(read_csv(f.bytes, TRUE).cols),
                    combined, dedup, failAt)
  ELSE append_to_base_csv(f, combined, FALSE, failAt)

\* ------------------------------------------------------------- the page
\* The text of the "Source column name" box.
SrcCol == <<"s">>

\* "col_{i+1}" for the n columns of a file read without header.
GenericNames(n) == [i \in 1..n |-> <<"c", "o", "l", "_">> \o Decimal(i)]

\* Lines 69-74 of read_one_csv for what pd.read_csv returned.
Standardized(read, hasHeader) ==
  [ok |-> read.ok,
   df |-> [cols |-> standardize_columns(IF hasHeader THEN read.cols
                                        ELSE GenericNames(Len(read.cols))),
           rows |-> read.rows]]

\* The names coerce_datetimes takes for date-like.
DateLike ==
  {<<"d", "a", "t", "e">>, <<"t", "i", "m", "e">>,
   <<"t", "i", "m", "e", "s", "t", "a", "m", "p">>,
   <<"d", "a", "t", "e", "t", "i", "m", "e">>}

\* [c for c in df.columns if c.lower() in (...)]
Dateish(cols) == SelectSeq(cols, LAMBDA c : Lower(c) \in DateLike)

\* n zeros.
Zeros(n) == [i \in 1..n |-> "0"]

\* pd.to_datetime(..., errors="coerce") on one cell, as to_csv writes it
\* afterwards: a missing cell and a text that is no date are NaT, written
\* as the empty field; a whole number below 10^9 is that many nanoseconds
\* after the epoch. The cells of the model are of these kinds.
ToDatetime(cell) ==
  IF cell # NA /\ Len(cell) <= 9 /\ \A i \in 1..Len(cell) : cell[i] \in DigitChars
  THEN <<"1", "9", "7", "0", "-", "0", "1", "-", "0", "1", " ",
         "0", "0", ":", "0", "0", ":", "0", "0", ".">>
       \o Zeros(9 - Len(cell)) \o cell
  ELSE NA

\* df[c] = pd.to_datetime(df[c], errors="coerce")
ConvertColumn(df, c) ==
  [df EXCEPT !.rows = [i \in 1..Len(df.rows) |->
     [df.rows[i] EXCEPT ![ColIndex(df.cols, c)] = ToDatetime(@)]]]

RECURSIVE CoerceLoop(_, _, _)
\* "for c in dateish" of coerce_datetimes: out holds the frame and the
\* columns whose conversion raised, which "except Exception: pass" caught.
\* Whether pd.to_datetime raises is the library's answer for the column;
\* raises is that answer.
CoerceLoop(out, dateish, raises) ==
  IF dateish = <<>> THEN out
  ELSE CoerceLoop(IF raises
                  THEN [out EXCEPT !.caught = Append(@, Head(dateish))]
                  ELSE [out EXCEPT !.df = ConvertColumn(@, Head(dateish))],
                  Tail(dateish), raises)

\* coerce_datetimes(df)
coerce_datetimes(df, raises) ==
  CoerceLoop([df |-> df, caught |-> <<>>], Dateish(df.cols), raises)

\* Lines 72-74 of read_one_csv for the frame with its columns renamed.
Coerced(r, auto_parse_dates, raises) ==
  IF r.ok /\ auto_parse_dates
  THEN [ok |-> TRUE,
        df |-> coerce_datetimes(r.df, raises).df,
        caught |-> coerce_datetimes(r.df, raises).caught]
  ELSE [ok |-> r.ok, df |-> r.df, caught |-> <<>>]

\* read_one_csv(file_like, header_mode=..., auto_parse_dates=...): ok is
\* FALSE when it raises; caught names the columns whose conversion raised
\* inside coerce_datetimes. The dialect options keep their defaults.
read_one_csv(bytes, hasHeader, auto_parse_dates, raises) ==
  Coerced(Standardized(read_csv(bytes, hasHeader), hasHeader),
          auto_parse_dates, raises)

\* df.drop_duplicates().reset_index(drop=True)
drop_duplicates(df) == [df EXCEPT !.rows = RowsAt(df.rows, KeptFirst(df.rows, 1, {}))]

\* df[col] = value: the column is overwritten, or added as the last one.
SetColumn(df, col, value) ==
  IF col \in Range(df.cols)
  THEN [df EXCEPT !.rows = [i \in 1..Len(df.rows) |->
          [df.rows[i] EXCEPT ![ColIndex(df.cols, col)] = value]]]
  ELSE [cols |-> Append(df.cols, col),
        rows |-> [i \in 1..Len(df.rows) |-> Append(df.rows[i], value)]]

\* Lines 184-186: the source column, when asked for.
WithSource(df, f, opts) ==
  IF opts.add_src THEN SetColumn(df, SrcCol, f.name) ELSE df

\* Lines 182-183: the repeated rows dropped, when asked for.
WithinDedup(df, opts) == IF opts.within_dedup THEN drop_duplicates(df) ELSE df

\* Lines 182-186 for what read_one_csv returned.
Prepared(read, f, opts) ==
  [ok |-> read.ok, df |-> WithSource(WithinDedup(read.df, opts), f, opts),
   caught |-> read.caught]

\* The body of the try block of the upload loop for one file.
ReadUpload(f, opts) ==
  Prepared(read_one_csv(f.bytes, opts.hasHeader, opts.auto_parse_dates,
                        opts.to_datetime_raises),
           f, opts)

\* The exceptions an except clause on the given line caught for the file
\* named name, one per entry of what.
CaughtAt(line, name, what) ==
  [i \in 1..Len(what) |-> [line |-> line, name |-> name]]

\* One pass of the upload loop for the file f, read as r: the frame and
\* the name are appended together, or the except clause reports the name.
\* caught lists every exception an except clause caught, by the line of
\* the clause; errors lists the st.error messages.
AfterFile(acc, f, r) ==
  IF r.ok
  THEN [acc EXCEPT !.dfs = Append(acc.dfs, r.df),
                   !.names = Append(acc.names, f.name),
                   !.caught = @ \o CaughtAt(42, f.name, r.caught)]
  ELSE [acc EXCEPT !.errors = Append(acc.errors, f.name),
                   !.caught = @ \o CaughtAt(189, f.name, <<f.name>>)]

RECURSIVE UploadLoop_abort(_, _, _)
\* The upload loop with an except clause that ends the loop.
UploadLoop_abort(files, opts, acc) ==
  IF files = <<>> THEN acc
  ELSE IF ReadUpload(Head(files), opts).ok
       THEN UploadLoop_abort(Tail(files), opts,
                             AfterFile(acc, Head(files), ReadUpload(Head(files), opts)))
       ELSE AfterFile(acc, Head(files), ReadUpload(Head(files), opts))

RECURSIVE UploadLoop(_, _, _)
\* "for f in uploaded_files": acc holds dfs, names and the names the
\* st.error messages report.
UploadLoop(files, opts, acc) ==
  IF files = <<>> THEN acc
  ELSE UploadLoop(Tail(files), opts,
                  AfterFile(acc, Head(files), ReadUpload(Head(files), opts)))

\* The combine step.
Combine(dfs, mode) ==
  IF Len(dfs) = 1 THEN dfs[1]
  ELSE IF mode = "Union" THEN align_union(dfs)
  ELSE align_intersection(dfs)

\* The button disabled for a missing base path only.
AppendDisabled_path_only(combined, basePathSet) == ~basePathSet

\* The disabled= argument of the append button.
AppendDisabled(combined, basePathSet) == IsEmpty(combined) \/ ~basePathSet

\* Lines 212-239 for the combined table: the warning or the caption, the
\* download text, the append button.
AfterCombine(files, opts, up, combined) ==
  [ran |-> TRUE, files |-> files, opts |-> opts,
   dfs |-> up.dfs, names |-> up.names, errors |-> up.errors,
   caught |-> up.caught,
   stopped |-> FALSE,
   combined |-> combined,
   warning |-> IsEmpty(combined),
   csv_bytes |-> to_csv(combined, TRUE),
   button |-> TRUE,
   disabled |-> AppendDisabled(combined, opts.basePathSet)]

\* Lines 193-239 for what the upload loop left: st.stop() when no file was
\* read, else the combine step and what follows it.
AfterUpload(files, opts, up) ==
  IF up.dfs = <<>>
  THEN [ran |-> TRUE, files |-> files, opts |-> opts,
        dfs |-> up.dfs, names |-> up.names, errors |-> up.errors,
        caught |-> up.caught,
        stopped |-> TRUE, combined |-> EmptyFrame, warning |-> FALSE,
        csv_bytes |-> <<>>, button |-> FALSE, disabled |-> TRUE]
  ELSE AfterCombine(files, opts, up, Combine(up.dfs, opts.mode))

\* One run of the page script up to the append button, for the uploaded
\* files and the widget values opts.
RunScript(files, opts) ==
  AfterUpload(files, opts,
              UploadLoop(files, opts,
                         [dfs |-> <<>>, names |-> <<>>, errors |-> <<>>,
                          caught |-> <<>>]))

\* ---------------------------------------------------------------- state
VARIABLES
  names,    \* normalizer: the raw column names
  once,     \* normalizer: standardize_columns(names), <<>> before the call
  twice,    \* normalizer: standardize_columns(once), <<>> before the call
  npc,      \* normalizer: "input", "once" or "twice"
  base,     \* appender: the base file on disk
  nOps,     \* appender: the number of append operations so far
  last,     \* appender: the last operation, its inputs and its outcome
  hist,     \* appender: per operation so far, whether it raised, the data
            \* records the file held before it and the rows it appended
  page      \* page: what the last run of the script left on the page

vars == <<names, once, twice, npc, base, nOps, last, hist, page>>
normVars == <<names, once, twice, npc>>
appendVars == <<base, nOps, last, hist>>

\* The page before any run of the script.
NoOpts ==
  [hasHeader |-> TRUE, add_src |-> FALSE, within_dedup |-> FALSE,
   mode |-> "Union", basePathSet |-> TRUE,
   auto_parse_dates |-> TRUE, to_datetime_raises |-> FALSE]
BlankPage ==
  [ran |-> FALSE, files |-> <<>>, opts |-> NoOpts,
   dfs |-> <<>>, names |-> <<>>, errors |-> <<>>, caught |-> <<>>,
   stopped |-> FALSE,
   combined |-> EmptyFrame, warning |-> FALSE, csv_bytes |-> <<>>,
   button |-> FALSE, disabled |-> TRUE]

\* The record kept of an operation.
NoOp ==
  [kind |-> "none", before |-> AbsentFile, df |-> EmptyFrame, dedup |-> FALSE,
   failAt |-> 0, out |-> Outcome(AbsentFile, FALSE, 0, 0, <<>>)]

\* ---------------------------------------------- normalizer specification
NormInit ==
  /\ names \in UNION {NameLists(k, MaxChars) : k \in 1..MaxCols}
  /\ once = <<>>
  /\ twice = <<>>
  /\ npc = "input"
  /\ base = AbsentFile
  /\ nOps = 0
  /\ last = NoOp
  /\ hist = <<>>
  /\ page = BlankPage

\* A first call of standardize_columns on the raw names.
Standardize ==
  /\ npc = "input"
  /\ once' = standardize_columns(names)
  /\ npc' = "once"
  /\ UNCHANGED <<names, twice, appendVars, page>>

\* A second call, on the result of the first.
Restandardize ==
  /\ npc = "once"
  /\ twice' = standardize_columns(once)
  /\ npc' = "twice"
  /\ UNCHANGED <<names, once, appendVars, page>>

NormNext == Standardize \/ Restandardize

SpecNorm == NormInit /\ [][NormNext]_vars

\* C1: every list standardize_columns returns has pairwise distinct names.
C1_Unique == npc # "input" => Distinct(once)

\* C2: standardize_columns is idempotent: a second run on the result of a
\* first run returns that result unchanged.
C2_Idempotent == npc = "twice" => twice = once
\* ------------------------------------------------ appender: the inputs
\* Largest number of append operations in one run of the model.
MaxOps == 2
\* Largest number of cells (rows times columns) of an incoming table.
MaxCells == 2

ColNames == {<<"a">>, <<"b">>}
CellValues == {NA, <<"1">>}

\* The column lists of the incoming tables: distinct names, in any order.
ColLists ==
  {<<c>> : c \in ColNames}
    \cup {p \in {<<c, d>> : c \in ColNames, d \in ColNames} : p[1] # p[2]}

RECURSIVE RowLists(_, _)
\* All lists of exactly n rows of w cells.
RowLists(n, w) ==
  IF n = 0 THEN {<<>>}
  ELSE {<<r>> \o l : r \in [1..w -> CellValues], l \in RowLists(n - 1, w)}

\* The incoming tables.
Tables ==
  UNION {{[cols |-> cl, rows |-> rs] : rs \in RowLists(n, Len(cl))} :
         cl \in ColLists, n \in 0..MaxCells}
LegalTables == {t \in Tables : Len(t.cols) * Len(t.rows) <= MaxCells}

\* The base files the appender may find: no file, an empty file, a file
\* this code wrote, a file with a raw header and no final line terminator,
\* the file two direct calls leave (created from a table with the column a
\* and no row, then a row of a table with the columns a, b appended), and
\* a file with unsorted columns whose lines end in carriage returns.
InitialBases ==
  {AbsentFile,
   [exists |-> TRUE, bytes |-> <<>>],
   [exists |-> TRUE, bytes |-> <<"a", NL, "2", NL, "1", NL>>],
   [exists |-> TRUE, bytes |-> <<"A", NL, "1">>],
   [exists |-> TRUE, bytes |-> <<"a", NL, "1", Comma, "2", NL>>],
   [exists |-> TRUE, bytes |-> <<"b", Comma, "a", CR, "1", Comma, "2", CR>>]}

\* The data records a file holds: its records after the header record.
DataRows(f) == IF PresentNonEmpty(f) THEN Len(Records(f.bytes)) - 1 ELSE 0

\* The entry hist gets for an operation on the file f with outcome out.
HistEntry(f, out) ==
  [raised |-> out.raised, recs0 |-> DataRows(f), appended |-> out.rows_appended]

\* The writes an I/O error may hit, by source line: 253 the rewrite of the
\* base, 100 the newline fix-up, 133 the append, 138 the creation.
FailPoints == {0, 100, 133, 138, 253}

\* The writes an operation on the file f reaches (0: no failure).
ReachedWrites(f, viaPage) ==
  IF ~PresentNonEmpty(f) THEN {0, 138}
  ELSE IF viaPage THEN {0, 253, 133}
  ELSE IF safe_ensure_trailing_newline(f) # f THEN {0, 100, 133}
  ELSE {0, 133}

\* --------------------------------------------- appender specification
AppendInit ==
  /\ base \in InitialBases
  /\ nOps = 0
  /\ last = NoOp
  /\ hist = <<>>
  /\ page = BlankPage
  /\ names = <<>>
  /\ once = <<>>
  /\ twice = <<>>
  /\ npc = "input"

\* A direct call append_to_base_csv(base_path, df, dedup_against_base=dedup).
DirectAppend ==
  \E df \in LegalTables, dedup \in BOOLEAN, failAt \in FailPoints :
    /\ nOps < MaxOps
    /\ failAt \in ReachedWrites(base, FALSE)
    /\ \E out \in {append_to_base_csv(base, df, dedup, failAt)} :
        /\ base' = out.file
        /\ nOps' = nOps + 1
        /\ last' = [kind |-> "direct", before |-> base, df |-> df,
                    dedup |-> dedup, failAt |-> failAt, out |-> out]
        /\ hist' = Append(hist, HistEntry(base, out))
        /\ UNCHANGED <<normVars, page>>

\* A click on "Append combined to base CSV": the button is enabled only
\* for a combined table that is not empty.
PageAppend ==
  \E combined \in LegalTables, dedup \in BOOLEAN, failAt \in FailPoints :
    /\ nOps < MaxOps
    /\ ~IsEmpty(combined)
    /\ failAt \in ReachedWrites(base, TRUE)
    /\ \E out \in {do_append(base, combined, dedup, failAt)} :
        /\ base' = out.file
        /\ nOps' = nOps + 1
        /\ last' = [kind |-> "page", before |-> base, df |-> combined,
                    dedup |-> dedup, failAt |-> failAt, out |-> out]
        /\ hist' = Append(hist, HistEntry(base, out))
        /\ UNCHANGED <<normVars, page>>

AppendNext == DirectAppend \/ PageAppend

SpecAppend == AppendInit /\ [][AppendNext]_vars
\* ------------------------------------------------------ page: the inputs
\* Largest number of files in one upload.
MaxFiles == 3

\* The files a user may upload, by name: x has a repeated row, y shares
\* both columns with x under a raw header and has a missing cell, w and v
\* have one column each and none in common, and o has a record with more
\* fields than its first one, which read_csv refuses.
UploadPool ==
  {[name |-> <<"x">>, bytes |-> <<"a", Comma, "b", NL, "1", Comma, "2", NL, "1", Comma, "2", NL>>],
   [name |-> <<"y">>, bytes |-> <<"b", Comma, "A", NL, "2", Comma, NL>>],
   [name |-> <<"v">>, bytes |-> <<"B", " ", NL, "2", NL, "1", NL>>],
   [name |-> <<"d">>, bytes |-> <<"d", "a", "t", "e", Comma, "a", NL, "1", Comma, "1", NL>>],
   [name |-> <<"o">>, bytes |-> <<"a", NL, "1", NL, "1", Comma, "2", Comma, "2", NL>>]}

RECURSIVE Batches(_)
\* All uploads of exactly n files.
Batches(n) ==
  IF n = 0 THEN {<<>>}
  ELSE {<<f>> \o b : f \in UploadPool, b \in Batches(n - 1)}

\* The widget values of a run, and whether pd.to_datetime raises on the
\* date-like columns of this run; it is called only when auto_parse_dates
\* is set.
Options ==
  {o \in [hasHeader : BOOLEAN, add_src : BOOLEAN, within_dedup : BOOLEAN,
          mode : {"Union", "Intersection"}, basePathSet : BOOLEAN,
          auto_parse_dates : BOOLEAN, to_datetime_raises : BOOLEAN] :
     o.to_datetime_raises => o.auto_parse_dates}

\* ------------------------------------------------- page specification
PageInit ==
  /\ page = BlankPage
  /\ base = AbsentFile
  /\ nOps = 0
  /\ last = NoOp
  /\ hist = <<>>
  /\ names = <<>>
  /\ once = <<>>
  /\ twice = <<>>
  /\ npc = "input"

\* One run of the script: the user's files and widget values, then the
\* upload loop, the previews, the combine step and the buttons. Every run
\* rebuilds dfs and names from nothing (lines 172-173), so what a run
\* leaves depends on its inputs alone and one run per behaviour shows all.
RunPage ==
  \E n \in 0..MaxFiles : \E files \in Batches(n) : \E opts \in Options :
    /\ ~page.ran
    /\ page' = RunScript(files, opts)
    /\ UNCHANGED <<normVars, appendVars>>

PageNext == RunPage

SpecPage == PageInit /\ [][PageNext]_vars

\* ------------------------------------------------------------ page claims
\* The page went past the previews (st.stop() was not called).
Combined == page.ran /\ ~page.stopped

\* The number of rows of a list of frames.
RECURSIVE TotalRows(_)
TotalRows(dfs) ==
  IF dfs = <<>> THEN 0 ELSE Len(Head(dfs).rows) + TotalRows(Tail(dfs))

\* The frame and the row in it that row r of the concatenation comes from.
RECURSIVE SourceOf(_, _, _)
SourceOf(dfs, r, k) ==
  IF r <= Len(dfs[k].rows) THEN [frame |-> k, row |-> r]
  ELSE SourceOf(dfs, r - Len(dfs[k].rows), k + 1)

\* The cell of column c in row r of the concatenation of dfs: the source
\* row's cell, or "lacks" when the source frame has no column c.
SourceCell(dfs, r, c) ==
  LET src == SourceOf(dfs, r, 1)
      d == dfs[src.frame]
  IN  IF \E k \in 1..Len(d.cols) : d.cols[k] = c
      THEN d.rows[src.row][CHOOSE k \in 1..Len(d.cols) : d.cols[k] = c]
      ELSE <<"lacks">>

\* Every row of the combined table is, column by column, the row of its
\* source at the same place in input order, missing where the source lacks
\* the column.
RowsInInputOrder ==
  /\ Len(page.combined.rows) = TotalRows(page.dfs)
  /\ \A r \in 1..Len(page.combined.rows) : \A j \in 1..Len(page.combined.cols) :
       LET cell == SourceCell(page.dfs, r, page.combined.cols[j])
       IN  page.combined.rows[r][j] = (IF cell = <<"lacks">> THEN NA ELSE cell)

AllCols == UNION {Range(page.dfs[i].cols) : i \in 1..Len(page.dfs)}
SharedCols == {c \in AllCols : \A i \in 1..Len(page.dfs) : c \in Range(page.dfs[i].cols)}

\* C6: align_union of two or more tables has as many rows as the tables
\* together, its column set is the union of theirs, and a cell of a column
\* the row's source table lacked is missing (every other cell is the
\* source's).
C6_UnionAlign ==
  (Combined /\ page.opts.mode = "Union" /\ Len(page.dfs) >= 2) =>
    /\ Len(page.combined.rows) = TotalRows(page.dfs)
    /\ Range(page.combined.cols) = AllCols
    /\ Distinct(page.combined.cols)
    /\ RowsInInputOrder

\* C6 witness: two tables with rows, each lacking a column of the other.
C6_Witness ==
  /\ Combined /\ page.opts.mode = "Union" /\ Len(page.dfs) = 2
  /\ Len(page.dfs[1].rows) > 0 /\ Len(page.dfs[2].rows) > 0
  /\ Range(page.dfs[1].cols) \ Range(page.dfs[2].cols) # {}
  /\ Range(page.dfs[2].cols) \ Range(page.dfs[1].cols) # {}
  /\ Len(page.combined.rows) = TotalRows(page.dfs)

\* Intersection of two or more tables that share no column.
NoCommonColumn ==
  page.opts.mode = "Intersection" /\ Len(page.dfs) >= 2 /\ SharedCols = {}

\* C7 as stated: in both modes the combined table has the rows of every
\* input in input order, as many as the inputs have together.
C7_RowsKept == Combined => RowsInInputOrder

\* C7 amended: the same, except for an Intersection of tables that share no
\* column, where the combined table has no column and no row.
C7_RowsKeptUnlessDisjoint ==
  Combined =>
    IF NoCommonColumn THEN page.combined = EmptyFrame ELSE RowsInInputOrder

\* C7 witness: an Intersection of two tables that share one column only,
\* one of them with a repeated row.
C7_Witness ==
  /\ Combined /\ page.opts.mode = "Intersection" /\ Len(page.dfs) = 2
  /\ Cardinality(SharedCols) = 1 /\ Cardinality(AllCols) > 1
  /\ \E i, j \in 1..Len(page.combined.rows) :
       i # j /\ page.combined.rows[i] = page.combined.rows[j]
  /\ Len(page.combined.rows) = TotalRows(page.dfs)
  /\ TotalRows(page.dfs) >= 3

\* C9: an Intersection of tables that share no column gives a table without
\* columns, the script runs on to the append button, the warning is shown,
\* the download text is produced and the append button is disabled.
C9_EmptyIntersection ==
  (Combined /\ NoCommonColumn) =>
    /\ page.combined.cols = <<>>
    /\ page.warning
    /\ page.button
    /\ page.disabled
    /\ page.csv_bytes = <<NL>>

\* C9 witness: two readable files with rows and no common column, combined
\* by Intersection with a base path set.
C9_Witness ==
  /\ Combined /\ NoCommonColumn /\ page.opts.basePathSet
  /\ TotalRows(page.dfs) > 0
  /\ page.warning /\ page.disabled

\* The uploaded files read_one_csv reads, and those it raises on.
Readable(f) == read_csv(f.bytes, page.opts.hasHeader).ok
Unreadable(f) == ~Readable(f)
NameOf(files) == [i \in 1..Len(files) |-> files[i].name]

\* C10: the files whose read raises are reported by name and left out, the
\* others are kept in upload order, and dfs and names have the same length,
\* entry i of each coming from the same file.
C10_BatchSurvivesBadFile ==
  page.ran =>
    /\ page.errors = NameOf(SelectSeq(page.files, Unreadable))
    /\ page.names = NameOf(SelectSeq(page.files, Readable))
    /\ Len(page.dfs) = Len(page.names)
    /\ \A i \in 1..Len(page.dfs) :
         page.dfs[i] = ReadUpload(SelectSeq(page.files, Readable)[i], page.opts).df

\* C10 witness: three files, the second unreadable, the first and the third
\* different and both kept, in order.
C10_Witness ==
  /\ page.ran /\ Len(page.files) = 3
  /\ Unreadable(page.files[2])
  /\ page.errors = <<page.files[2].name>>
  /\ page.names = <<page.files[1].name, page.files[3].name>>
  /\ page.files[1].name # page.files[3].name
  /\ page.dfs[1] # page.dfs[2]

Completed == last.kind # "none" /\ ~last.out.raised

\* The table the file of the last operation held, as the code reads it, and
\* the union of its columns with the incoming ones.
BeforeRead == read_csv(last.before.bytes, TRUE)
BeforeTable == [cols |-> standardize_columns(BeforeRead.cols), rows |-> BeforeRead.rows]
UnionCols == Sorted(Range(BeforeTable.cols) \cup Range(last.df.cols))
BaseRowsU == reindex(BeforeTable, UnionCols).rows
IncomingU == reindex(last.df, UnionCols).rows

\* The incoming rows that equal no base row and no earlier incoming row.
IsNew(i) ==
  /\ IncomingU[i] \notin Range(BaseRowsU)
  /\ \A j \in 1..(i - 1) : IncomingU[j] # IncomingU[i]
NewIndexes == {i \in 1..Len(IncomingU) : IsNew(i)}
\* The i-th smallest element of a set of numbers.
Nth(S, i) == CHOOSE x \in S : Cardinality({y \in S : y <= x}) = i
Survivors == [i \in 1..Cardinality(NewIndexes) |-> IncomingU[Nth(NewIndexes, i)]]

C4_NoFusedRows ==
  /\ Completed => DataRows(base) = DataRows(last.before) + last.out.rows_appended
  /\ \A n \in 2..Len(hist) :
       (~hist[n - 1].raised /\ ~hist[n].raised /\ n = Len(hist)) =>
         DataRows(base) = hist[n - 1].recs0 + hist[n - 1].appended + hist[n].appended

\* C4 witness: two direct appends of at least one row each, the first onto
\* a file whose last byte was no line terminator.
C4_Witness ==
  /\ Len(hist) = 2 /\ ~hist[1].raised /\ ~hist[2].raised
  /\ hist[1].appended > 0 /\ hist[2].appended > 0
  /\ hist[1].recs0 > 0
  /\ last.kind = "direct"
  /\ DataRows(base) = hist[1].recs0 + hist[1].appended + hist[2].appended
  /\ DataRows(base) = DataRows(last.before) + hist[2].appended

\* C5: on an absent or empty base an append that runs to its end leaves a
\* file whose first record is the header of the incoming table, followed by
\* exactly one record per incoming row, holding that row's cells, and it
\* returns (0, rows(incoming)), with or without dedup_against_base.
C5_CreateOnAbsent ==
  (Completed /\ ~PresentNonEmpty(last.before)) =>
    /\ base.exists
    /\ Records(base.bytes) = <<last.df.cols>> \o last.df.rows
    /\ last.out.rows_before = 0
    /\ last.out.rows_appended = Len(last.df.rows)

\* C5 witness: a direct call with dedup_against_base set, on an empty file,
\* with an incoming table of two rows.
C5_Witness ==
  /\ Completed /\ last.kind = "direct" /\ last.dedup
  /\ last.before.exists /\ last.before.bytes = <<>>
  /\ Len(last.df.rows) = 2
  /\ last.out.rows_appended = 2

\* C8: an I/O failure during an append leaves the base file as it was
\* before the append.
C8_FailureLeavesBase ==
  (last.kind # "none" /\ last.failAt # 0 /\ last.out.raised) => base = last.before

\* The records of the file after the last operation.
AfterRecords == Records(base.bytes)

\* Every record has as many fields as the first one, the header.
Rectangular(recs) == \A i \in 1..Len(recs) : Len(recs[i]) = Len(recs[1])

\* C12: after an append that ran to its end on a present, non-empty base,
\* every record of the file has one field per header column, and the
\* header names (as standardize_columns reads them) are exactly the columns
\* the base had and the columns of the incoming table.
C12_StaysRectangular ==
  (Completed /\ PresentNonEmpty(last.before)) =>
    /\ AfterRecords # <<>>
    /\ Rectangular(AfterRecords)
    /\ Range(standardize_columns(AfterRecords[1])) = Range(UnionCols)

\* The records of the file before the last operation.
BeforeRecords == Records(last.before.bytes)

\* The header names of a list of records, as standardize_columns reads
\* them.
HeaderOf(recs) == IF recs = <<>> THEN <<>> ELSE standardize_columns(recs[1])

\* The field data record i of recs holds under the header name c; missing
\* when the header has no such name or the record no such field.
FieldOf(recs, i, c) ==
  IF c \in Range(HeaderOf(recs)) /\ ColIndex(HeaderOf(recs), c) <= Len(recs[i + 1])
  THEN recs[i + 1][ColIndex(HeaderOf(recs), c)]
  ELSE NA

\* C13: after an append that ran to its end, rows_before is the number of
\* data records the file held, the file holds rows_before + rows_appended
\* data records, and its first rows_before data records are the ones it
\* held, in order, field by field the same under every header name
\* (missing under a name they had no field for).
C13_AppendOnly ==
  Completed =>
    /\ last.out.rows_before = DataRows(last.before)
    /\ DataRows(base) = last.out.rows_before + last.out.rows_appended
    /\ \A i \in 1..DataRows(last.before) :
         \A c \in Range(HeaderOf(BeforeRecords)) \cup Range(HeaderOf(AfterRecords)) :
           FieldOf(AfterRecords, i, c) = FieldOf(BeforeRecords, i, c)
====
